---- MODULE Spec2Model ----
(***************************************************************************)
(* A model of the metric-extraction core of the Financial Document Q&A     *)
(* Assistant: modules/utils.py (parse_numeric), modules/processor.py       *)
(* (find_metric_in_text, read_numbers_from_tables, extract_multi_year_data,*)
(* structure_financial_data) and modules/extractor.py (the shape of the    *)
(* tables handed to the core).                                             *)
(*                                                                         *)
(* Python strings are TLA+ strings; TLC evaluates Len, \o, SubSeq, Head    *)
(* and Tail on them, so every string operation of the code (replace,       *)
(* strip, lower, startswith, `in`, re.findall, float) is computed          *)
(* character by character.                                                 *)
(***************************************************************************)
EXTENDS Integers, Sequences, FiniteSets, TLC

VARIABLES
    pc,        \* position of the call under study: "start" | "done"
    arg,       \* parse_numeric / find_metric_in_text: the string argument
    kwarg,     \* find_metric_in_text: the keyword_list argument
    raw_text,  \* structure_financial_data: the caller's text
    tables,    \* structure_financial_data: the caller's list of DataFrames
    ret,       \* the value the last call returned
    prev,      \* structure_financial_data: what earlier calls returned
    documents, \* st.session_state.documents / ask_question: docs_context
    chat,      \* st.session_state.chat
    uploaded,  \* the file held by the uploader widget
    button,    \* the button pressed for the current script run
    requests,  \* ask_question: requests sent to the LLM service
    response   \* ask_question: what the LLM service answered

session == <<documents, chat, uploaded, button, requests, response>>

vars == <<pc, arg, kwarg, raw_text, tables, ret, prev,
          documents, chat, uploaded, button, requests, response>>

\* no file in the uploader (st.file_uploader returns None)
NoFile == [name |-> "", text |-> "", grid |-> <<>>]

\* no request was answered
NoResponse == [kind |-> "none"]

\* app.py lines 24-27, and no widget touched
SessionIdle ==
    /\ documents = <<>>
    /\ chat = <<>>
    /\ uploaded = NoFile
    /\ button = "none"
    /\ requests = 0
    /\ response = NoResponse

(***************************************************************************)
(* String primitives                                                       *)
(***************************************************************************)
Char(s, i) == SubSeq(s, i, i)

DropFirst(s, n) == SubSeq(s, n + 1, Len(s))

TakeFirst(s, n) == SubSeq(s, 1, n)

StartsWith(s, p) == Len(p) <= Len(s) /\ SubSeq(s, 1, Len(p)) = p

EndsWith(s, p) == Len(p) <= Len(s) /\ SubSeq(s, Len(s) - Len(p) + 1, Len(s)) = p

\* Python's `sub in s`
Contains(sub, s) ==
    \E i \in 0..(Len(s) - Len(sub)) : SubSeq(s, i + 1, i + Len(sub)) = sub

Digits == {"0", "1", "2", "3", "4", "5", "6", "7", "8", "9"}

IsDigit(c) == c \in Digits

DigitVal(c) ==
    CASE c = "0" -> 0 [] c = "1" -> 1 [] c = "2" -> 2 [] c = "3" -> 3
      [] c = "4" -> 4 [] c = "5" -> 5 [] c = "6" -> 6 [] c = "7" -> 7
      [] c = "8" -> 8 [] c = "9" -> 9

UpperLetters == "ABCDEFGHIJKLMNOPQRSTUVWXYZ"

LowerLetters == "abcdefghijklmnopqrstuvwxyz"

UpperSet == {Char(UpperLetters, i) : i \in 1..26}

LowerOf ==
    [c \in UpperSet |->
        Char(LowerLetters, CHOOSE i \in 1..26 : Char(UpperLetters, i) = c)]

LowerChar(c) == IF c \in UpperSet THEN LowerOf[c] ELSE c

\* str.lower(), the two halves of the string one after the other
RECURSIVE Lower(_)
Lower(s) ==
    IF Len(s) <= 1 THEN LowerChar(s)
    ELSE Lower(TakeFirst(s, Len(s) \div 2)) \o Lower(DropFirst(s, Len(s) \div 2))

\* str.replace(c, "") for a one-character c
RECURSIVE Remove(_, _)
Remove(s, c) ==
    IF Len(s) <= 1 THEN (IF s = c THEN "" ELSE s)
    ELSE Remove(TakeFirst(s, Len(s) \div 2), c)
         \o Remove(DropFirst(s, Len(s) \div 2), c)

Whitespace == {" ", "\t", "\n", "\r"}

\* the positions of s that hold no whitespace
InkPositions(s) == {i \in 1..Len(s) : Char(s, i) \notin Whitespace}

LStrip(s) ==
    IF InkPositions(s) = {} THEN ""
    ELSE DropFirst(s, (CHOOSE i \in InkPositions(s) :
                          \A j \in InkPositions(s) : i <= j) - 1)

RStrip(s) ==
    IF InkPositions(s) = {} THEN ""
    ELSE TakeFirst(s, CHOOSE i \in InkPositions(s) :
                         \A j \in InkPositions(s) : j <= i)

\* str.strip()
Strip(s) == RStrip(LStrip(s))

\* length of the longest prefix of s made of decimal digits
RECURSIVE DigitPrefixLen(_)
DigitPrefixLen(s) ==
    IF s # "" /\ IsDigit(Head(s)) THEN 1 + DigitPrefixLen(Tail(s)) ELSE 0

\* the natural number a digit string denotes ("" denotes 0)
RECURSIVE ToInt(_)
ToInt(ds) ==
    IF ds = "" THEN 0
    ELSE 10 * ToInt(TakeFirst(ds, Len(ds) - 1)) + DigitVal(Char(ds, Len(ds)))

(***************************************************************************)
(* Python values: None, floats, and the ValueError float() raises.         *)
(* A finite float is m * 10^e with m not divisible by 10 (0 is m=0, e=0),  *)
(* so equal numbers are equal records; products by 1e3/1e6/1e9 are exact.  *)
(***************************************************************************)
None == [kind |-> "None", m |-> 0, e |-> 0]

ValueError == [kind |-> "ValueError", m |-> 0, e |-> 0]

NaN == [kind |-> "nan", m |-> 0, e |-> 0]

Inf(neg) == [kind |-> "inf", m |-> IF neg THEN -1 ELSE 1, e |-> 0]

Abs(n) == IF n < 0 THEN -n ELSE n

RECURSIVE NumDigits(_)
NumDigits(n) == IF n < 10 THEN 1 ELSE 1 + NumDigits(n \div 10)

\* the largest decimal exponent of a finite IEEE-754 double (1.797e308)
MaxExp10 == 308

\* the decimal exponent below which a double rounds to zero (4.9e-324)
MinExp10 == 324

RECURSIVE Normal(_, _)
Normal(m, e) ==
    IF m = 0 THEN [kind |-> "num", m |-> 0, e |-> 0]
    ELSE IF m % 10 = 0 THEN Normal(m \div 10, e + 1)
    ELSE [kind |-> "num", m |-> m, e |-> e]

\* the double nearest to m * 10^e: overflow gives inf, underflow gives 0
Num(m, e) ==
    IF m # 0 /\ NumDigits(Abs(m)) + e - 1 > MaxExp10 THEN Inf(m < 0)
    ELSE IF m # 0 /\ NumDigits(Abs(m)) + e - 1 < 0 - MinExp10 THEN Normal(0, 0)
    ELSE Normal(m, e)

Whole(n) == Num(n, 0)

IsFloat(v) == v.kind \in {"num", "inf", "nan"}

\* float(...) * 1eK ; an exception of float() propagates
Scale(v, k) ==
    IF v.kind = "num" THEN Num(v.m, v.e + k) ELSE v

\* The built-in float(s): surrounding whitespace, an optional sign, then
\* inf / infinity / nan in any case, or a decimal literal with an optional
\* exponent.  (Digit-group underscores are not modelled; no input of the
\* model holds one.)  The literal is read left to right, stage by stage.
AllDigits(s) == \A i \in 1..Len(s) : IsDigit(Char(s, i))

SignedInt(neg, n) == IF neg THEN 0 - n ELSE n

\* the exponent's digits: at least one, and nothing after them
FloatExpDigits(digs, nfrac, r, eNeg, neg) ==
    IF r = "" \/ ~AllDigits(r) THEN ValueError
    ELSE Num(SignedInt(neg, ToInt(digs)), SignedInt(eNeg, ToInt(r)) - nfrac)

\* the exponent's optional sign
FloatExpSign(digs, nfrac, r, neg) ==
    IF r # "" /\ Head(r) \in {"+", "-"}
    THEN FloatExpDigits(digs, nfrac, Tail(r), Head(r) = "-", neg)
    ELSE FloatExpDigits(digs, nfrac, r, FALSE, neg)

\* after the mantissa (digs, of which nfrac follow the point): end or exponent
FloatAfterMantissa(digs, nfrac, r, neg) ==
    IF digs = "" THEN ValueError
    ELSE IF r = "" THEN Num(SignedInt(neg, ToInt(digs)), 0 - nfrac)
    ELSE IF Head(r) \in {"e", "E"} THEN FloatExpSign(digs, nfrac, Tail(r), neg)
    ELSE ValueError

\* the fraction digits after the point
FloatFraction(intp, r, n2, neg) ==
    FloatAfterMantissa(intp \o TakeFirst(r, n2), n2, DropFirst(r, n2), neg)

\* after the integer digits: an optional point and fraction
FloatAfterInt(intp, r, neg) ==
    IF r # "" /\ Head(r) = "."
    THEN FloatFraction(intp, Tail(r), DigitPrefixLen(Tail(r)), neg)
    ELSE FloatAfterMantissa(intp, 0, r, neg)

FloatDecimal(body, n1, neg) ==
    FloatAfterInt(TakeFirst(body, n1), DropFirst(body, n1), neg)

FloatWord(low, neg) ==
    IF low \in {"inf", "infinity"} THEN Inf(neg) ELSE NaN

FloatUnsigned(body, neg) ==
    IF body # "" /\ ~IsDigit(Head(body)) /\ Head(body) # "."
    THEN IF Lower(body) \in {"inf", "infinity", "nan"}
         THEN FloatWord(Lower(body), neg)
         ELSE ValueError
    ELSE FloatDecimal(body, DigitPrefixLen(body), neg)

FloatStripped(s) ==
    IF s # "" /\ Head(s) \in {"+", "-"}
    THEN FloatUnsigned(Tail(s), Head(s) = "-")
    ELSE FloatUnsigned(s, FALSE)

PyFloat(s0) == FloatStripped(Strip(s0))

(***************************************************************************)
(* modules/utils.py : parse_numeric                                        *)
(***************************************************************************)
\* ParenRewrite with the minus sign forgotten: (100) -> 100
ParenRewrite_NoMinus(t) ==
    IF StartsWith(t, "(") /\ EndsWith(t, ")")
    THEN SubSeq(t, 2, Len(t) - 1)
    ELSE t

\* lines 29-30: accounting-style negatives, (100) -> -100
ParenRewrite(t) ==
    IF StartsWith(t, "(") /\ EndsWith(t, ")")
    THEN "-" \o SubSeq(t, 2, Len(t) - 1)
    ELSE t

\* lines 33-41: the suffix multipliers, then the default float(text)
SuffixParse(t) ==
    IF EndsWith(t, "K") THEN Scale(PyFloat(TakeFirst(t, Len(t) - 1)), 3)
    ELSE IF EndsWith(t, "M") THEN Scale(PyFloat(TakeFirst(t, Len(t) - 1)), 6)
    ELSE IF EndsWith(t, "B") THEN Scale(PyFloat(TakeFirst(t, Len(t) - 1)), 9)
    ELSE PyFloat(t)

\* the try body, lines 27-41, on the standardized text
TryBody(t) == SuffixParse(ParenRewrite(t))

\* lines 43-48: on ValueError float(text) is tried once more, on the text
\* as the try body left it
RetryFloat(first, t) ==
    IF first # ValueError THEN first
    ELSE IF PyFloat(ParenRewrite(t)) # ValueError THEN PyFloat(ParenRewrite(t))
    ELSE None

\* line 25 onwards, on the standardized text
ParseStandardized(t) == RetryFloat(TryBody(t), t)

parse_numeric(text) ==
    IF text = "" THEN None
    ELSE ParseStandardized(Strip(Remove(Remove(text, ","), " ")))

(***************************************************************************)
(* modules/processor.py : the keyword catalog                              *)
(***************************************************************************)
\* METRIC_KEYWORDS, a dict: its items in insertion order
METRIC_KEYWORDS ==
    << [metric |-> "revenue",
        kws |-> <<"revenue", "total revenue", "sales", "net sales">>],
       [metric |-> "gross_profit",
        kws |-> <<"gross profit", "gross margin">>],
       [metric |-> "operating_income",
        kws |-> <<"operating income", "operating profit">>],
       [metric |-> "net_income",
        kws |-> <<"net income", "net profit", "profit for the year",
                  "profit after tax">>],
       [metric |-> "ebitda", kws |-> <<"ebitda">>],
       [metric |-> "total_assets", kws |-> <<"total assets">>],
       [metric |-> "total_liabilities", kws |-> <<"total liabilities">>],
       [metric |-> "cash_and_equivalents",
        kws |-> <<"cash and cash equivalents", "cash and equivalents">>],
       [metric |-> "cost_of_revenue",
        kws |-> <<"cost of revenue", "cost of sales", "cost of goods sold",
                  "cogs">>],
       [metric |-> "total_equity",
        kws |-> <<"total equity", "shareholders' equity",
                  "shareholders equity">>] >>

MetricKeys == {METRIC_KEYWORDS[i].metric : i \in DOMAIN METRIC_KEYWORDS}

KeywordsOf(metric) ==
    METRIC_KEYWORDS[CHOOSE i \in DOMAIN METRIC_KEYWORDS :
                        METRIC_KEYWORDS[i].metric = metric].kws

(***************************************************************************)
(* The regular expression [-+]?\d[\d,\.]* of find_metric_in_text and       *)
(* contains_number                                                         *)
(***************************************************************************)
\* length of the longest prefix of s matching [\d,\.]*
RECURSIVE NumTailLen(_)
NumTailLen(s) ==
    IF s # "" /\ (IsDigit(Head(s)) \/ Head(s) \in {",", "."})
    THEN 1 + NumTailLen(Tail(s))
    ELSE 0

\* length of the match of the pattern anchored at the start of s, 0 if none
MatchLenAt(s) ==
    IF s = "" THEN 0
    ELSE IF IsDigit(Head(s)) THEN 1 + NumTailLen(Tail(s))
    ELSE IF Head(s) \in {"-", "+"} /\ Len(s) >= 2 /\ IsDigit(Char(s, 2))
         THEN 2 + NumTailLen(DropFirst(s, 2))
    ELSE 0

\* re.findall(r"[-+]?\d[\d,\.]*", s): leftmost, non-overlapping matches
\* the positions of s where the pattern matches
MatchPositions(s) == {i \in 1..Len(s) : MatchLenAt(DropFirst(s, i - 1)) > 0}

\* the leftmost of them
FirstMatchPosition(s) ==
    CHOOSE i \in MatchPositions(s) : \A j \in MatchPositions(s) : i <= j

\* the rest of s from its leftmost match on
FromFirstMatch(s) == DropFirst(s, FirstMatchPosition(s) - 1)

RECURSIVE FindAll(_)
FindAll(s) ==
    IF MatchPositions(s) = {} THEN <<>>
    ELSE << TakeFirst(FromFirstMatch(s), MatchLenAt(FromFirstMatch(s))) >>
         \o FindAll(DropFirst(FromFirstMatch(s), MatchLenAt(FromFirstMatch(s))))

\* bool(re.search(r"[-+]?\d[\d,\.]*", s))
contains_number(s) == MatchPositions(s) # {}

(***************************************************************************)
(* modules/processor.py : find_metric_in_text                              *)
(***************************************************************************)
\* index of the first "\n" of s, 0 if none
NewlineAt(s) ==
    IF \A i \in 1..Len(s) : Char(s, i) # "\n" THEN 0
    ELSE CHOOSE i \in 1..Len(s) :
            Char(s, i) = "\n" /\ \A j \in 1..(i - 1) : Char(s, j) # "\n"

\* str.splitlines() for "\n"-delimited text: no empty last line
RECURSIVE SplitLines(_)
SplitLines(s) ==
    IF s = "" THEN <<>>
    ELSE LET k == NewlineAt(s)
         IN  IF k = 0 THEN <<s>>
             ELSE <<TakeFirst(s, k - 1)>> \o SplitLines(DropFirst(s, k))

\* lines 44-47: the hit a line gives for one keyword, if any
LineHit(kw, line) ==
    IF Contains(kw, line) /\ FindAll(line) # <<>>
    THEN << [line |-> Strip(line), nums |-> FindAll(line)] >>
    ELSE <<>>

\* lines 43-47: the inner loop, over the lines, for one keyword
RECURSIVE HitsOfKeyword(_, _)
HitsOfKeyword(kw, lines) ==
    IF lines = <<>> THEN <<>>
    ELSE LineHit(kw, Head(lines)) \o HitsOfKeyword(kw, Tail(lines))

\* the loops nested the other way round: lines outermost, keywords inside
RECURSIVE HitsOfLine(_, _)
HitsOfLine(kws, line) ==
    IF kws = <<>> THEN <<>>
    ELSE LineHit(Head(kws), line) \o HitsOfLine(Tail(kws), line)

RECURSIVE HitsLineMajor(_, _)
HitsLineMajor(kws, lines) ==
    IF lines = <<>> THEN <<>>
    ELSE HitsOfLine(kws, Head(lines)) \o HitsLineMajor(kws, Tail(lines))

\* lines 42-47: the outer loop, over the keywords
RECURSIVE HitsKeywordMajor(_, _)
HitsKeywordMajor(kws, lines) ==
    IF kws = <<>> THEN <<>>
    ELSE HitsOfKeyword(Head(kws), lines) \o HitsKeywordMajor(Tail(kws), lines)

find_metric_in_text(text, keyword_list) ==
    HitsKeywordMajor(keyword_list, SplitLines(Lower(text)))

(***************************************************************************)
(* Python dicts are functions: the keys are the DOMAIN.  {} is <<>>.       *)
(***************************************************************************)
EmptyDict == <<>>

Has(d, k) == k \in DOMAIN d

\* d[k] = v
DictSet(d, k, v) == (k :> v) @@ d

\* d.get(k)
Get(d, k) == IF Has(d, k) THEN d[k] ELSE None

(***************************************************************************)
(* pandas DataFrames: the column labels (as str() gives them), the index   *)
(* labels, and the rows of cells (as astype(str) gives them; a missing     *)
(* cell reads "nan" or "<NA>").                                            *)
(***************************************************************************)
RECURSIVE SortedSeq(_)
SortedSeq(S) ==
    IF S = {} THEN <<>>
    ELSE LET lo == CHOOSE x \in S : \A y \in S : x <= y
         IN  <<lo>> \o SortedSeq(S \ {lo})

StrOfNat(n) == Char("0123456789", n + 1)

(***************************************************************************)
(* modules/extractor.py : the tables the app hands to the core             *)
(***************************************************************************)
\* extract_from_excel, lines 74-84: the sheet's first row becomes the column
\* labels, the frame has a RangeIndex, a sheet with no data row is skipped
ExcelTables(grid) ==
    IF Len(grid) <= 1 THEN <<>>
    ELSE << [columns |-> grid[1],
             index   |-> [i \in 1..(Len(grid) - 1) |-> i - 1],
             rows    |-> [i \in 1..(Len(grid) - 1) |->
                            [j \in DOMAIN grid[i + 1] |->
                               IF grid[i + 1][j] = "" THEN "nan"
                               ELSE grid[i + 1][j]]]] >>

\* extract_from_pdf, lines 43-48: pd.DataFrame(t) numbers the columns and
\* keeps the header as row 0; empty strings become NA, rows and then columns
\* that are all NA are dropped, and the kept rows keep their index labels
PdfTables(grid) ==
    IF grid = <<>> \/ grid[1] = <<>> THEN <<>>
    ELSE LET keptRows == {i \in DOMAIN grid : \E j \in DOMAIN grid[i] : grid[i][j] # ""}
             keptCols == {j \in DOMAIN grid[1] : \E i \in keptRows : grid[i][j] # ""}
             ri == SortedSeq(keptRows)
             ci == SortedSeq(keptCols)
         IN  << [columns |-> [k \in DOMAIN ci |-> StrOfNat(ci[k] - 1)],
                 index   |-> [k \in DOMAIN ri |-> ri[k] - 1],
                 rows    |-> [k \in DOMAIN ri |->
                                [l \in DOMAIN ci |->
                                   IF grid[ri[k]][ci[l]] = "" THEN "<NA>"
                                   ELSE grid[ri[k]][ci[l]]]]] >>

(***************************************************************************)
(* modules/processor.py : read_numbers_from_tables                         *)
(***************************************************************************)
\* .replace("nan", "", regex=False) on a cell
NanToEmpty(c) == IF c = "nan" THEN "" ELSE c

\* position of the first cell that contains_number, 0 if none
RECURSIVE FirstNumeric(_)
FirstNumeric(cells) ==
    IF cells = <<>> THEN 0
    ELSE IF contains_number(Head(cells)) THEN 1
    ELSE LET k == FirstNumeric(Tail(cells)) IN IF k = 0 THEN 0 ELSE k + 1

\* lines 79-82 and 90-93: the value stored for the cells, if one is stored:
\* the first numeric-looking cell is parsed, whatever the parse gives
CellsValue(cells) ==
    IF FirstNumeric(cells) = 0 THEN <<>>
    ELSE << parse_numeric(cells[FirstNumeric(cells)]) >>

\* results[metric] = value for the values stored in turn: the last one stays
StoreLast(results, metric, values) ==
    IF values = <<>> THEN results
    ELSE DictSet(results, metric, values[Len(values)])

\* lines 79-82 and 90-93 on one row or column
ScanCells(results, metric, cells) ==
    StoreLast(results, metric, CellsValue(cells))

\* line 78: the column's cells, top to bottom
ColumnValues(df, j) == [i \in DOMAIN df.rows |-> NanToEmpty(df.rows[i][j])]

\* lines 76-82: the values the keyword loop stores for one column header
RECURSIVE ColKwLoop(_, _, _)
ColKwLoop(kws, col_text, colvals) ==
    IF kws = <<>> THEN <<>>
    ELSE (IF Contains(Head(kws), col_text) THEN CellsValue(colvals) ELSE <<>>)
         \o ColKwLoop(Tail(kws), col_text, colvals)

\* lines 74-82: the values stored for the columns j..last, in order
RECURSIVE ColumnStores(_, _, _)
ColumnStores(kws, df, j) ==
    IF j > Len(df.columns) THEN <<>>
    ELSE ColKwLoop(kws, Lower(df.columns[j]), ColumnValues(df, j))
         \o ColumnStores(kws, df, j + 1)

\* lines 74-82: the column-header pass, columns j..last
ColumnPass(results, metric, kws, df, j) ==
    StoreLast(results, metric, ColumnStores(kws, df, j))

\* lines 87-93: the keyword loop for one row label; df.iloc[idx, :] takes
\* the index LABEL idx as a POSITION and raises IndexError past the last row
RECURSIVE RowKwLoop(_, _, _, _, _, _)
RowKwLoop(acc, metric, kws, label, idx, df) ==
    IF kws = <<>> \/ acc.exc THEN acc
    ELSE IF ~Contains(Head(kws), label)
         THEN RowKwLoop(acc, metric, Tail(kws), label, idx, df)
    ELSE IF idx >= Len(df.rows) THEN [acc EXCEPT !.exc = TRUE]
    ELSE RowKwLoop([acc EXCEPT !.results =
                        ScanCells(acc.results, metric, df.rows[idx + 1])],
                   metric, Tail(kws), label, idx, df)

\* lines 85-93: the row-label pass, rows k..last of leftcol.items()
RECURSIVE RowPass(_, _, _, _, _)
RowPass(acc, metric, kws, df, k) ==
    IF k > Len(df.rows) \/ acc.exc THEN acc
    ELSE RowPass(RowKwLoop(acc, metric, kws, Lower(df.rows[k][1]),
                           df.index[k], df),
                 metric, kws, df, k + 1)

\* ScanTable with the two passes in the other order: row labels first
ScanTable_RowsFirst(acc, metric, kws, df) ==
    IF acc.exc THEN acc
    ELSE IF Len(df.columns) = 0 THEN [acc EXCEPT !.exc = TRUE]
    ELSE LET afterRows == RowPass(acc, metric, kws, df, 1)
         IN  IF afterRows.exc THEN afterRows
             ELSE [afterRows EXCEPT !.results =
                      ColumnPass(afterRows.results, metric, kws, df, 1)]

\* lines 70-93: one table for one metric; df.iloc[:, 0] raises IndexError
\* on a frame with no column
ScanTable(acc, metric, kws, df) ==
    IF acc.exc THEN acc
    ELSE LET afterCols == ColumnPass(acc.results, metric, kws, df, 1)
         IN  IF Len(df.columns) = 0 THEN [acc EXCEPT !.exc = TRUE]
             ELSE RowPass([acc EXCEPT !.results = afterCols], metric, kws, df, 1)

\* line 69: the tables loop for one metric; an exception ends it
RECURSIVE ScanTables(_, _, _, _)
ScanTables(acc, metric, kws, tbls) ==
    IF tbls = <<>> \/ acc.exc THEN acc
    ELSE ScanTables(ScanTable(acc, metric, kws, Head(tbls)), metric, kws,
                    Tail(tbls))

\* line 68: the metrics loop; an exception ends it
RECURSIVE ScanMetrics(_, _, _)
ScanMetrics(acc, items, tbls) ==
    IF items = <<>> \/ acc.exc THEN acc
    ELSE ScanMetrics(ScanTables(acc, Head(items).metric, Head(items).kws, tbls),
                     Tail(items), tbls)

\* returns [exc |-> TRUE, ...] when the call raises IndexError
read_numbers_from_tables(tbls) ==
    ScanMetrics([exc |-> FALSE, results |-> EmptyDict], METRIC_KEYWORDS, tbls)

\* df2 = df without the copy: the caller's frame gets the lower-cased labels
CallerFrameAfterScan_Aliased(df) ==
    [df EXCEPT !.columns = [j \in DOMAIN df.columns |-> Lower(df.columns[j])]]

\* lines 70-71: df2 = df.copy(); df2.columns = [...] changes the copy only,
\* so the caller's frame is what it was
CallerFrameAfterScan(df) == df

(***************************************************************************)
(* modules/processor.py : extract_multi_year_data                          *)
(***************************************************************************)
\* index of the first c in s, 0 if none
FirstIndexOf(s, c) ==
    IF \A i \in 1..Len(s) : Char(s, i) # c THEN 0
    ELSE CHOOSE i \in 1..Len(s) :
            Char(s, i) = c /\ \A j \in 1..(i - 1) : Char(s, j) # c

\* index of the last c in s, 0 if none
LastIndexOf(s, c) ==
    IF \A i \in 1..Len(s) : Char(s, i) # c THEN 0
    ELSE CHOOSE i \in 1..Len(s) :
            Char(s, i) = c /\ \A j \in (i + 1)..Len(s) : Char(s, j) # c

\* re.search(r"\(.*\)", s): a "(" with a ")" somewhere after it
HasParens(s) ==
    FirstIndexOf(s, "(") > 0 /\ LastIndexOf(s, ")") > FirstIndexOf(s, "(")

\* line 169, .replace(r"\(.*\)", "-", regex=True) on one cell: the greedy
\* match runs from the first "(" to the last ")"
ParensToMinus(s) ==
    IF HasParens(s)
    THEN TakeFirst(s, FirstIndexOf(s, "(") - 1) \o "-"
         \o DropFirst(s, LastIndexOf(s, ")"))
    ELSE s

\* lines 168-169: df_str, cell by cell
DfStrCell(c) == ParensToMinus(NanToEmpty(c))

\* length of the longest prefix of s made of whitespace (\s*)
RECURSIVE SpacePrefixLen(_)
SpacePrefixLen(s) ==
    IF s # "" /\ Head(s) \in Whitespace THEN 1 + SpacePrefixLen(Tail(s)) ELSE 0

\* the match of (20\d{2})|(FY\s*\d{2})|(\d{4}[-/]\d{2}) anchored at the
\* start of s, "" if none; the alternatives are tried in this order
YearMatchAt(s) ==
    IF Len(s) >= 4 /\ TakeFirst(s, 2) = "20" /\ AllDigits(SubSeq(s, 3, 4))
    THEN TakeFirst(s, 4)
    ELSE IF StartsWith(s, "FY")
            /\ LET k == SpacePrefixLen(DropFirst(s, 2))
               IN  Len(s) >= 4 + k /\ AllDigits(SubSeq(s, 3 + k, 4 + k))
    THEN TakeFirst(s, 4 + SpacePrefixLen(DropFirst(s, 2)))
    ELSE IF Len(s) >= 7 /\ AllDigits(TakeFirst(s, 4))
            /\ Char(s, 5) \in {"-", "/"} /\ AllDigits(SubSeq(s, 6, 7))
    THEN TakeFirst(s, 7)
    ELSE ""

\* the positions of s where the year pattern matches
YearPositions(s) == {i \in 1..Len(s) : YearMatchAt(DropFirst(s, i - 1)) # ""}

\* re.search of the year pattern: the leftmost match, "" if none
YearMatch(s) ==
    IF YearPositions(s) = {} THEN ""
    ELSE YearMatchAt(DropFirst(s, (CHOOSE i \in YearPositions(s) :
                                      \A j \in YearPositions(s) : i <= j) - 1))

\* lines 173-177 and 182-186: the (col_idx, year) pairs of a row of labels,
\* from position j on
RECURSIVE YearColumns(_, _)
YearColumns(labels, j) ==
    IF j > Len(labels) THEN <<>>
    ELSE (IF YearMatch(labels[j]) # ""
          THEN << [col_idx |-> j, year |-> YearMatch(labels[j])] >>
          ELSE <<>>)
         \o YearColumns(labels, j + 1)

\* lines 172-186: header labels first, else the row at position 0
DetectYearColumns(df) ==
    IF YearColumns(df.columns, 1) # <<>> THEN YearColumns(df.columns, 1)
    ELSE IF Len(df.rows) > 0
         THEN YearColumns([j \in DOMAIN df.rows[1] |-> DfStrCell(df.rows[1][j])], 1)
    ELSE <<>>

\* re.sub(r'[\(\)\$,]', '', s)
StripMoney(s) == Remove(Remove(Remove(Remove(s, "("), ")"), "$"), ",")

\* lines 201-204: the value of one year cell of df_str
YearCellValue(cell) ==
    LET clean == Strip(StripMoney(cell))
    IN  parse_numeric(IF HasParens(cell) THEN "-" \o clean ELSE clean)

\* lines 199-206: the assignments yearly_data[year][metric] = value made
\* for the year columns of one matched row, in the order they are made
RECURSIVE YearCellEvents(_, _, _)
YearCellEvents(metric, row, ycols) ==
    IF ycols = <<>> THEN <<>>
    ELSE (IF Head(ycols).col_idx <= Len(row)
             /\ Strip(row[Head(ycols).col_idx]) # ""
             /\ YearCellValue(row[Head(ycols).col_idx]) # None
          THEN << [year   |-> Head(ycols).year,
                   metric |-> metric,
                   value  |-> YearCellValue(row[Head(ycols).col_idx])] >>
          ELSE <<>>)
         \o YearCellEvents(metric, row, Tail(ycols))

AnyKeywordIn(kws, label) == \E i \in DOMAIN kws : Contains(kws[i], label)

\* the LAST metric of the catalog with a keyword in the label takes the row
RECURSIVE FirstMetricOf_Last(_, _)
FirstMetricOf_Last(items, label) ==
    IF items = <<>> THEN ""
    ELSE IF AnyKeywordIn(items[Len(items)].kws, label)
         THEN items[Len(items)].metric
    ELSE FirstMetricOf_Last(SubSeq(items, 1, Len(items) - 1), label)

\* lines 197-207: the first metric of the catalog with a keyword in the
\* label takes the row, "" if none
RECURSIVE FirstMetricOf(_, _)
FirstMetricOf(items, label) ==
    IF items = <<>> THEN ""
    ELSE IF AnyKeywordIn(Head(items).kws, label) THEN Head(items).metric
    ELSE FirstMetricOf(Tail(items), label)

\* line 192: one row of df_str
DfStrRow(df, k) == [j \in DOMAIN df.rows[k] |-> DfStrCell(df.rows[k][j])]

\* lines 193-207: the assignments made for one row of df_str.iterrows();
\* the row whose index label is 0 is skipped
YearRowEventsOf(df, ycols, k) ==
    IF df.index[k] = 0
       \/ FirstMetricOf(METRIC_KEYWORDS, Strip(Lower(DfStrRow(df, k)[1]))) = ""
    THEN <<>>
    ELSE YearCellEvents(
             FirstMetricOf(METRIC_KEYWORDS, Strip(Lower(DfStrRow(df, k)[1]))),
             DfStrRow(df, k), ycols)

\* lines 192-207: the rows k..last
RECURSIVE YearRowEvents(_, _, _)
YearRowEvents(df, ycols, k) ==
    IF k > Len(df.rows) THEN <<>>
    ELSE YearRowEventsOf(df, ycols, k) \o YearRowEvents(df, ycols, k + 1)

\* lines 167-207: one table
YearTableEvents(df) ==
    IF DetectYearColumns(df) = <<>> THEN <<>>
    ELSE YearRowEvents(df, DetectYearColumns(df), 1)

\* line 166: the tables in order
RECURSIVE YearEvents(_)
YearEvents(tbls) ==
    IF tbls = <<>> THEN <<>>
    ELSE YearTableEvents(Head(tbls)) \o YearEvents(Tail(tbls))

\* the last assignment made to yearly_data[year][metric]
LastEvent(events, year, metric) ==
    CHOOSE i \in DOMAIN events :
        /\ events[i].year = year /\ events[i].metric = metric
        /\ \A j \in DOMAIN events :
              events[j].year = year /\ events[j].metric = metric => j <= i

\* line 206, yearly_data.setdefault(year, {})[metric] = value for each
\* assignment in order: every key holds the value assigned to it last
YearlyOf(events) ==
    [year \in {events[i].year : i \in DOMAIN events} |->
        [metric \in {events[i].metric :
                        i \in {j \in DOMAIN events : events[j].year = year}} |->
            events[LastEvent(events, year, metric)].value]]

extract_multi_year_data(tbls) == YearlyOf(YearEvents(tbls))

(***************************************************************************)
(* modules/processor.py : find_currency_in_document                        *)
(***************************************************************************)
NoCurrency == "<None>"

CurrencySymbols == <<"₹", "$", "€", "£", "¥">>

CurrencyTokens == <<"inr", "usd", "eur", "gbp", "jpy", "aud">>

UpperChar(c) ==
    IF \E i \in 1..26 : Char(LowerLetters, i) = c
    THEN Char(UpperLetters, CHOOSE i \in 1..26 : Char(LowerLetters, i) = c)
    ELSE c

\* str.upper()
RECURSIVE Upper(_)
Upper(s) == IF s = "" THEN "" ELSE UpperChar(Head(s)) \o Upper(Tail(s))

\* the element of cands that occurs first in txt, "" if none
RECURSIVE FirstContained_ByOccurrence(_, _)
FirstContained_ByOccurrence(cands, txt) ==
    IF txt = "" THEN ""
    ELSE IF \E i \in DOMAIN cands : StartsWith(txt, cands[i])
         THEN cands[CHOOSE i \in DOMAIN cands : StartsWith(txt, cands[i])]
    ELSE FirstContained_ByOccurrence(cands, Tail(txt))

\* the first element of cands contained in txt, "" if none
RECURSIVE FirstContained(_, _)
FirstContained(cands, txt) ==
    IF cands = <<>> THEN ""
    ELSE IF Contains(Head(cands), txt) THEN Head(cands)
    ELSE FirstContained(Tail(cands), txt)

\* line 127: some cell of the frame holds one of the symbols of the pattern
TableHasSymbol(df) ==
    \E i \in DOMAIN df.rows : \E j \in DOMAIN df.rows[i] :
        \E k \in 1..4 : Contains(CurrencySymbols[k], df.rows[i][j])

find_currency_in_document(text, tbls) ==
    IF FirstContained(CurrencySymbols, text) # ""
    THEN FirstContained(CurrencySymbols, text)
    ELSE IF FirstContained(CurrencyTokens, Lower(text)) # ""
    THEN Upper(FirstContained(CurrencyTokens, Lower(text)))
    ELSE IF \E t \in DOMAIN tbls : TableHasSymbol(tbls[t]) THEN "symbolic"
    ELSE NoCurrency

(***************************************************************************)
(* modules/processor.py : structure_financial_data                         *)
(***************************************************************************)
\* code points of the characters a year label can hold
Ord(c) ==
    CASE c = "\t" -> 9 [] c = "\n" -> 10 [] c = "\r" -> 13 [] c = " " -> 32
      [] c = "-" -> 45 [] c = "/" -> 47 [] c = "F" -> 70 [] c = "Y" -> 89
      [] OTHER -> 48 + DigitVal(c)

\* Python's a < b on str: by code point, a proper prefix is smaller
RECURSIVE StrLess(_, _)
StrLess(a, b) ==
    IF b = "" THEN FALSE
    ELSE IF a = "" THEN TRUE
    ELSE IF Head(a) = Head(b) THEN StrLess(Tail(a), Tail(b))
    ELSE Ord(Head(a)) < Ord(Head(b))

\* the latest year by its last two digits ("FY22" before "2023")
LatestYear_ByDigits(yearly) ==
    CHOOSE y \in DOMAIN yearly : \A z \in DOMAIN yearly :
        ~StrLess(SubSeq(y, Len(y) - 1, Len(y)), SubSeq(z, Len(z) - 1, Len(z)))

\* line 259: max(yearly_metrics.keys())
LatestYear(yearly) ==
    CHOOSE y \in DOMAIN yearly : \A z \in DOMAIN yearly : ~StrLess(y, z)

\* lines 240-242: every key the table scanner stored is seeded as high
SeedFromTables(table_metrics) ==
    [metrics    |-> table_metrics,
     confidence |-> [k \in DOMAIN table_metrics |-> "high"]]

\* line 249: parse_numeric(hits[0][1][-1]), the first hit's last numeric
\* substring
TextCandidate(hits) == parse_numeric(hits[1].nums[Len(hits[1].nums)])

\* lines 247-252: one catalog entry that is not in metrics, given its hits
TextFallbackOne(mc, metric, hits) ==
    IF hits # <<>> /\ TextCandidate(hits) # None
    THEN [metrics    |-> DictSet(mc.metrics, metric, TextCandidate(hits)),
          confidence |-> DictSet(mc.confidence, metric, "medium")]
    ELSE mc

\* lines 245-252: the text fallback, for the catalog entries from items on
RECURSIVE TextFallback(_, _, _)
TextFallback(mc, items, text) ==
    IF items = <<>> THEN mc
    ELSE IF Has(mc.metrics, Head(items).metric)
         THEN TextFallback(mc, Tail(items), text)
    ELSE TextFallback(
             TextFallbackOne(mc, Head(items).metric,
                             find_metric_in_text(text, Head(items).kws)),
             Tail(items), text)

\* lines 258-263: the latest year's record overwrites what is not high
BoostFromLatest(mc, yearly) ==
    IF yearly = EmptyDict THEN mc
    ELSE LET rec  == yearly[LatestYear(yearly)]
             over == {k \in DOMAIN rec :
                        ~Has(mc.metrics, k) \/ mc.confidence[k] # "high"}
         IN  [metrics    |-> [k \in (DOMAIN mc.metrics) \cup over |->
                                 IF k \in over THEN rec[k] ELSE mc.metrics[k]],
              confidence |-> [k \in (DOMAIN mc.confidence) \cup over |->
                                 IF k \in over THEN "high" ELSE mc.confidence[k]]]

\* the metrics dict returned as it is, without the normalization
Normalize_Raw(metrics) == metrics

\* line 266: every key of the catalog, None where nothing was found
Normalize(metrics) == [k \in MetricKeys |-> Get(metrics, k)]

\* what the caller sees when the call raises
Raised ==
    [raised |-> TRUE, metrics |-> EmptyDict, yearly_metrics |-> EmptyDict,
     currency |-> NoCurrency, confidence |-> EmptyDict]

\* lines 265-273: the returned dict
StructuredDocument(boosted, yearly, currency) ==
    [raised         |-> FALSE,
     metrics        |-> Normalize(boosted.metrics),
     yearly_metrics |-> yearly,
     currency       |-> currency,
     confidence     |-> boosted.confidence]

\* lines 244-273, once the table scanner has returned
AfterTableScan(table_metrics, text, tbls, yearly) ==
    StructuredDocument(
        BoostFromLatest(TextFallback(SeedFromTables(table_metrics),
                                     METRIC_KEYWORDS, text),
                        yearly),
        yearly, find_currency_in_document(text, tbls))

\* lines 236-273; an IndexError of the table scanner escapes the call
StructureFrom(scan, text, tbls) ==
    IF scan.exc THEN Raised
    ELSE AfterTableScan(scan.results, text, tbls, extract_multi_year_data(tbls))

structure_financial_data(text, tbls) ==
    StructureFrom(read_numbers_from_tables(tbls), text, tbls)

\* the caller's list of frames after a call
TablesAfterCall(tbls) == [t \in DOMAIN tbls |-> CallerFrameAfterScan(tbls[t])]

(***************************************************************************)
(* Python's text forms of values: str(int), str(float), str.title          *)
(***************************************************************************)
\* str(n) for a natural number
RECURSIVE IntStr(_)
IntStr(n) == IF n < 10 THEN StrOfNat(n) ELSE IntStr(n \div 10) \o StrOfNat(n % 10)

RECURSIVE Zeros(_)
Zeros(n) == IF n <= 0 THEN "" ELSE "0" \o Zeros(n - 1)

\* the digits d of a mantissa placed in fixed notation, the decimal point
\* after the first p digits
FixedForm(d, p) ==
    IF p >= Len(d) THEN d \o Zeros(p - Len(d)) \o ".0"
    ELSE IF p > 0 THEN TakeFirst(d, p) \o "." \o DropFirst(d, p)
    ELSE "0." \o Zeros(0 - p) \o d

\* the digits d in scientific notation with decimal exponent x
ExpForm(d, x) ==
    Head(d) \o (IF Len(d) > 1 THEN "." \o Tail(d) ELSE "")
    \o "e" \o (IF x < 0 THEN "-" ELSE "+")
    \o (IF Abs(x) < 10 THEN "0" ELSE "") \o IntStr(Abs(x))

\* str(v) of a float: repr switches to scientific notation below 1e-4 and
\* from 1e16 on
FloatStr(v) ==
    IF v.kind = "nan" THEN "nan"
    ELSE IF v.kind = "inf" THEN (IF v.m < 0 THEN "-inf" ELSE "inf")
    ELSE IF v.m = 0 THEN "0.0"
    ELSE (IF v.m < 0 THEN "-" ELSE "")
         \o (IF Len(IntStr(Abs(v.m))) + v.e - 1 < 0 - 4
                \/ Len(IntStr(Abs(v.m))) + v.e - 1 >= 16
             THEN ExpForm(IntStr(Abs(v.m)), Len(IntStr(Abs(v.m))) + v.e - 1)
             ELSE FixedForm(IntStr(Abs(v.m)), Len(IntStr(Abs(v.m))) + v.e))

\* str.replace(a, b) for single characters
RECURSIVE ReplaceChar(_, _, _)
ReplaceChar(s, a, b) ==
    IF s = "" THEN ""
    ELSE (IF Head(s) = a THEN b ELSE Head(s)) \o ReplaceChar(Tail(s), a, b)

IsLetter(c) == c \in UpperSet \/ \E i \in 1..26 : Char(LowerLetters, i) = c

\* str.title(): a letter after a non-letter is upper-cased, the others
\* lower-cased; afterLetter tells whether the previous character is a letter
RECURSIVE TitleFrom(_, _)
TitleFrom(s, afterLetter) ==
    IF s = "" THEN ""
    ELSE (IF afterLetter THEN LowerChar(Head(s)) ELSE UpperChar(Head(s)))
         \o TitleFrom(Tail(s), IsLetter(Head(s)))

Title(s) == TitleFrom(s, FALSE)

\* "sep".join(parts)
RECURSIVE Join(_, _)
Join(sep, parts) ==
    IF parts = <<>> THEN ""
    ELSE IF Len(parts) = 1 THEN parts[1]
    ELSE parts[1] \o sep \o Join(sep, Tail(parts))

(***************************************************************************)
(* modules/extractor.py : a file of one page (PDF) or one sheet (Excel)    *)
(***************************************************************************)
\* the characters lo..hi of s without those that start three newlines
RECURSIVE DropThirdNewlines(_, _, _)
DropThirdNewlines(s, lo, hi) ==
    IF lo > hi THEN ""
    ELSE IF lo = hi
         THEN (IF lo + 2 <= Len(s) /\ SubSeq(s, lo, lo + 2) = "\n\n\n" THEN ""
               ELSE Char(s, lo))
    ELSE DropThirdNewlines(s, lo, (lo + hi) \div 2)
         \o DropThirdNewlines(s, (lo + hi) \div 2 + 1, hi)

\* re.sub(r"\n{3,}", "\n\n", s): a run of newlines keeps its last two
CollapseNewlines(s) == DropThirdNewlines(s, 1, Len(s))

\* lines 31-57, for a PDF of one page with one table
extract_from_pdf(file_obj) ==
    [raw_text |-> CollapseNewlines(
                      IF Strip(file_obj.text) # ""
                      THEN "[Page 1]\n" \o Strip(file_obj.text) ELSE ""),
     tables   |-> PdfTables(file_obj.grid)]

\* lines 87-90: the two summary lines of a sheet
SheetSummary(df) ==
    << "Sheet: Sheet1 | shape: (" \o IntStr(Len(df.rows)) \o ", "
          \o IntStr(Len(df.columns)) \o ")",
       "Headers: " \o Join(", ", df.columns) >>

\* lines 73-94, for a workbook of one sheet
extract_from_excel(file_obj) ==
    [raw_text |-> IF ExcelTables(file_obj.grid) = <<>> THEN ""
                  ELSE Join("\n", SheetSummary(ExcelTables(file_obj.grid)[1])),
     tables   |-> ExcelTables(file_obj.grid)]

(***************************************************************************)
(* modules/qa_engine.py : lookup_metrics, fallback_answer, ask_question    *)
(***************************************************************************)
\* lines 144-152: possible_metrics, a dict, its items in insertion order
possible_metrics ==
    << [metric |-> "revenue", kws |-> <<"revenue", "sales">>],
       [metric |-> "net_income", kws |-> <<"net income", "net profit", "profit">>],
       [metric |-> "gross_profit", kws |-> <<"gross profit">>],
       [metric |-> "ebitda", kws |-> <<"ebitda">>],
       [metric |-> "total_assets", kws |-> <<"total assets", "assets">>],
       [metric |-> "total_liabilities", kws |-> <<"liabilities">>],
       [metric |-> "expenses", kws |-> <<"expenses", "costs">>] >>

\* lines 157-161: the answers one metric gets from the documents d..last
RECURSIVE AnswersOfMetric(_, _, _)
AnswersOfMetric(m, docs_context, d) ==
    IF d > Len(docs_context) THEN <<>>
    ELSE (IF Get(docs_context[d].metrics.metrics, m) # None
          THEN << Title(ReplaceChar(m, "_", " ")) \o " (from "
                  \o docs_context[d].name \o "): "
                  \o FloatStr(Get(docs_context[d].metrics.metrics, m)) >>
          ELSE <<>>)
         \o AnswersOfMetric(m, docs_context, d + 1)

\* lines 154-161: the answers list, for the entries from items on
RECURSIVE LookupAnswers(_, _, _)
LookupAnswers(q, docs_context, items) ==
    IF items = <<>> THEN <<>>
    ELSE (IF AnyKeywordIn(Head(items).kws, q)
          THEN AnswersOfMetric(Head(items).metric, docs_context, 1)
          ELSE <<>>)
         \o LookupAnswers(q, docs_context, Tail(items))

\* an Optional[str]: None, or str s
NoAnswer == [kind |-> "None", s |-> ""]
StrAnswer(s) == [kind |-> "str", s |-> s]

\* line 73: the truth value of an Optional[str]
Truthy(a) == a.kind = "str" /\ a.s # ""

\* lines 129-163: a string, or None when there is no answer
lookup_metrics(question, docs_context) ==
    IF LookupAnswers(Lower(question), docs_context, possible_metrics) = <<>>
    THEN NoAnswer
    ELSE StrAnswer(Join("\n", LookupAnswers(Lower(question), docs_context,
                                            possible_metrics)))

NoError == ""

\* lines 179-180; error is the text of the exception, NoError if none
fallback_answer(error) ==
    "I couldn't find the requested value in the uploaded documents."
    \o (IF error # NoError THEN " (Ollama error: " \o error \o ")" ELSE "")

\* values decoded from JSON: strings, integers, and dicts and lists of them
JStr(x) == [type |-> "str", s |-> x, n |-> 0, items |-> <<>>]
JInt(x) == [type |-> "int", s |-> "", n |-> x, items |-> <<>>]
JDict(kvs) == [type |-> "dict", s |-> "", n |-> 0, items |-> kvs]
JList(xs) == [type |-> "list", s |-> "", n |-> 0, items |-> xs]

\* repr() of a string or an integer
ReprAtom(j) == IF j.type = "str" THEN "'" \o j.s \o "'" ELSE IntStr(j.n)

\* str(j) of a decoded value
PyStr(j) ==
    IF j.type = "str" THEN j.s
    ELSE IF j.type = "int" THEN IntStr(j.n)
    ELSE IF j.type = "list"
    THEN "[" \o Join(", ", [i \in DOMAIN j.items |-> ReprAtom(j.items[i])]) \o "]"
    ELSE "{" \o Join(", ", [i \in DOMAIN j.items |->
                              "'" \o j.items[i].key \o "': "
                              \o ReprAtom(j.items[i].val)]) \o "}"

HasKey(j, k) == \E i \in DOMAIN j.items : j.items[i].key = k

\* j[k]: the last item with that key
ItemOf(j, k) ==
    j.items[CHOOSE i \in DOMAIN j.items :
               /\ j.items[i].key = k
               /\ \A i2 \in DOMAIN j.items : j.items[i2].key = k => i2 <= i].val

\* lines 117-120: the answer made of a decoded body; .strip() of a value
\* that is no string raises AttributeError inside the try block
AnswerOfJson(j) ==
    IF j.type = "dict" /\ HasKey(j, "text")
    THEN IF ItemOf(j, "text").type = "str" THEN Strip(ItemOf(j, "text").s)
         ELSE fallback_answer("'" \o ItemOf(j, "text").type
                              \o "' object has no attribute 'strip'")
    ELSE PyStr(j)

\* the status code is not looked at
AnswerOfResponse_IgnoreStatus(r) ==
    IF r.kind = "raise" THEN fallback_answer(r.error)
    ELSE IF ~r.json THEN fallback_answer(r.error)
    ELSE AnswerOfJson(r.body)

\* lines 114-125: what ask_question returns for the outcome r of
\* requests.post: a response with a status code and a body (which
\* resp.json() decodes or fails to decode), or an exception
AnswerOfResponse(r) ==
    IF r.kind = "raise" THEN fallback_answer(r.error)
    ELSE IF r.status # 200 THEN fallback_answer(NoError)
    ELSE IF ~r.json THEN fallback_answer(r.error)
    ELSE AnswerOfJson(r.body)

(***************************************************************************)
(* Specification ParseSpec: one call of parse_numeric on a bounded input   *)
(***************************************************************************)
\* longest input string enumerated over ParseAlphabet
MaxLen == 4

ParseAlphabet == {"1", "5", ".", "-", "(", ")", "M", ",", "e"}

RECURSIVE StringsUpTo(_)
StringsUpTo(n) ==
    IF n = 0 THEN {""}
    ELSE LET S == StringsUpTo(n - 1)
         IN  S \cup {s \o c : s \in S, c \in ParseAlphabet}

\* the strings of the docstring and of the specification's examples, and
\* the words float() accepts that hold no digit
ParseSamples ==
    {"(100)", "1,234.50", "2M", "1.5M", "(1.5M)", "1e6", "abc", "M", "-",
     "nan", "inf", "NaN", "-inf", "infinity", "(inf)", "infK", " 1 5 ",
     "1.5K", "2B", "(2B)", "$100", "12abc", "1e555", "1e-555"}

ParseInputs == StringsUpTo(MaxLen) \cup ParseSamples

InitParse ==
    /\ pc = "start"
    /\ SessionIdle
    /\ arg \in ParseInputs
    /\ kwarg = <<>>
    /\ raw_text = ""
    /\ tables = <<>>
    /\ ret = None
    /\ prev = <<>>

CallParseNumeric ==
    /\ pc = "start"
    /\ ret' = parse_numeric(arg)
    /\ pc' = "done"
    /\ UNCHANGED session
    /\ UNCHANGED <<arg, kwarg, raw_text, tables, prev>>

NextParse == CallParseNumeric

ParseSpec == InitParse /\ [][NextParse]_vars

(***************************************************************************)
(* Specification TextSpec: one call of find_metric_in_text on a text of a  *)
(* few lines and one keyword list of the catalog                           *)
(***************************************************************************)
\* most lines of an enumerated text
MaxLines == 3

TextLines ==
    {"Sales 5", "Revenue 7", "Total Revenue was $1,200 in FY23",
     "Net sales and revenue 1,000 up 2.5", "  no figure for revenue",
     "Net income (3)"}

\* the metrics whose keyword lists the calls are made with
TextMetrics == {"revenue", "net_income", "cost_of_revenue"}

RECURSIVE LineSeqsUpTo(_)
LineSeqsUpTo(n) ==
    IF n = 0 THEN {<<>>}
    ELSE LET S == LineSeqsUpTo(n - 1)
         IN  S \cup {Append(ls, l) : ls \in S, l \in TextLines}

\* "\n".join(lines)
RECURSIVE JoinLines(_)
JoinLines(ls) ==
    IF ls = <<>> THEN ""
    ELSE IF Len(ls) = 1 THEN ls[1]
    ELSE ls[1] \o "\n" \o JoinLines(Tail(ls))

Texts == {JoinLines(ls) : ls \in LineSeqsUpTo(MaxLines)}

InitText ==
    /\ pc = "start"
    /\ SessionIdle
    /\ arg \in Texts
    /\ kwarg \in {KeywordsOf(m) : m \in TextMetrics}
    /\ raw_text = ""
    /\ tables = <<>>
    /\ ret = <<>>
    /\ prev = <<>>

CallFindMetricInText ==
    /\ pc = "start"
    /\ ret' = find_metric_in_text(arg, kwarg)
    /\ pc' = "done"
    /\ UNCHANGED session
    /\ UNCHANGED <<arg, kwarg, raw_text, tables, prev>>

NextText == CallFindMetricInText

TextSpec == InitText /\ [][NextText]_vars

(***************************************************************************)
(* Specification StructSpec: a document (raw_text, tables) as the app's    *)
(* extractors produce it, and calls of structure_financial_data and of     *)
(* read_numbers_from_tables on it                                          *)
(***************************************************************************)
\* most data rows of an enumerated grid
MaxRows == 2

Headers ==
    { <<"Metric", "2022", "2023">>,
      <<"Item", "FY22", "2023">>,
      <<"Item", "Revenue", "Notes">> }

RowPool ==
    { <<"Revenue", "100", "150">>,
      <<"Net income", "(20)", "30">>,
      <<"Cost of revenue", "40", "45">>,
      <<"Sales", "n/a", "n/a">>,
      <<"Total assets", "12abc", "7">>,
      <<"Notes", "n/a", "n/a">>,
      <<"", "", "">> }

BlankRow == <<"", "", "">>

RECURSIVE RowSeqsUpTo(_)
RowSeqsUpTo(n) ==
    IF n = 0 THEN {<<>>}
    ELSE LET S == RowSeqsUpTo(n - 1)
         IN  S \cup {Append(rs, r) : rs \in S, r \in RowPool}

\* a header row followed by data rows
Grids == {<<h>> \o rs : h \in Headers, rs \in RowSeqsUpTo(MaxRows)}

\* the specification's example table
ExampleGrid == << <<"Metric", "2022", "2023">>, <<"Revenue", "100", "150">> >>

\* frames paired up in two-table documents
PairFrames ==
    ExcelTables(ExampleGrid)
    \o ExcelTables(<< <<"Item", "Revenue", "Notes">>, <<"Net income", "(20)", "30">> >>)
    \o PdfTables(<< <<"Item", "FY22", "2023">>, <<"Sales", "60", "70">> >>)

\* a PDF page's table may start with a blank line above the header
TableLists ==
    {<<>>}
    \cup {ExcelTables(g) : g \in Grids}
    \cup {PdfTables(g) : g \in Grids}
    \cup {PdfTables(<<BlankRow>> \o g) : g \in Grids}
    \cup {<<PairFrames[i], PairFrames[j]>> : i, j \in DOMAIN PairFrames}

RawTexts ==
    {"", "Total Revenue was $1,200 in FY23",
     "Net income 3\nSales 5 usd\nRevenue 7"}

\* another document of the session, structured between two calls
OtherText == "EBITDA 9"

OtherTables ==
    ExcelTables(<< <<"Item", "FY21", "FY22">>, <<"Gross profit", "1", "2">> >>)

NoCall == [ret |-> Raised, tables |-> <<>>, called |-> FALSE]

InitStruct ==
    /\ pc = "start"
    /\ SessionIdle
    /\ arg = ""
    /\ kwarg = <<>>
    /\ raw_text \in RawTexts
    /\ tables \in TableLists
    /\ ret = Raised
    /\ prev = NoCall

\* the first call on the document
CallStructure ==
    /\ pc = "start"
    /\ ret' = structure_financial_data(raw_text, tables)
    /\ prev' = [ret |-> structure_financial_data(raw_text, tables),
                tables |-> tables, called |-> TRUE]
    /\ tables' = TablesAfterCall(tables)
    /\ pc' = "done"
    /\ UNCHANGED session
    /\ UNCHANGED <<arg, kwarg, raw_text>>

\* a call on another document in between
CallStructureOther ==
    /\ pc = "done"
    /\ ret' = structure_financial_data(OtherText, OtherTables)
    /\ pc' = "other"
    /\ UNCHANGED session
    /\ UNCHANGED <<arg, kwarg, raw_text, tables, prev>>

\* a later call on the same document
CallStructureAgain ==
    /\ pc \in {"done", "other"}
    /\ ret' = structure_financial_data(raw_text, tables)
    /\ tables' = TablesAfterCall(tables)
    /\ pc' = "again"
    /\ UNCHANGED session
    /\ UNCHANGED <<arg, kwarg, raw_text, prev>>

\* a call of the table scanner alone
CallReadNumbers ==
    /\ pc = "start"
    /\ ret' = read_numbers_from_tables(tables)
    /\ tables' = TablesAfterCall(tables)
    /\ pc' = "scanned"
    /\ UNCHANGED session
    /\ UNCHANGED <<arg, kwarg, raw_text, prev>>

NextStruct ==
    \/ CallStructure
    \/ CallStructureOther
    \/ CallStructureAgain
    \/ CallReadNumbers

StructSpec == InitStruct /\ [][NextStruct]_vars

(***************************************************************************)
(* Specification CurrencySpec: find_currency_in_document on a text made of *)
(* a few words and on a document's tables                                  *)
(***************************************************************************)
\* most words of an enumerated text
MaxWords == 3

CurrencyWords == {"₹9", "$5", "€", "¥", "USD", "eur", "Aud", "paid"}

RECURSIVE WordSeqsUpTo(_)
WordSeqsUpTo(n) ==
    IF n = 0 THEN {<<>>}
    ELSE LET S == WordSeqsUpTo(n - 1)
         IN  S \cup {Append(ws, w) : ws \in S, w \in CurrencyWords}

RECURSIVE JoinWords(_)
JoinWords(ws) ==
    IF ws = <<>> THEN ""
    ELSE IF Len(ws) = 1 THEN ws[1]
    ELSE ws[1] \o " " \o JoinWords(Tail(ws))

CurrencyTexts == {JoinWords(ws) : ws \in WordSeqsUpTo(MaxWords)}

CurrencyTableLists ==
    { <<>>,
      ExcelTables(<< <<"Item", "Price">>, <<"Fee", "$5">> >>),
      PdfTables(<< <<"Item", "Price">>, <<"Fee", "£7">> >>),
      ExcelTables(<< <<"Item", "Price $">>, <<"Fee", "5">> >>),
      PdfTables(<< <<"Item", "Price">>, <<"Fee", "¥5">> >>),
      ExcelTables(<< <<"Item", "Price">>, <<"Fee", "5">> >>)
        \o PdfTables(<< <<"Item", "Price">>, <<"Tax", "€2">> >>) }

InitCurrency ==
    /\ pc = "start"
    /\ SessionIdle
    /\ arg = ""
    /\ kwarg = <<>>
    /\ raw_text \in CurrencyTexts
    /\ tables \in CurrencyTableLists
    /\ ret = NoCurrency
    /\ prev = NoCall

CallFindCurrency ==
    /\ pc = "start"
    /\ ret' = find_currency_in_document(raw_text, tables)
    /\ pc' = "done"
    /\ UNCHANGED session
    /\ UNCHANGED <<arg, kwarg, raw_text, tables, prev>>

NextCurrency == CallFindCurrency

CurrencySpec == InitCurrency /\ [][NextCurrency]_vars

(***************************************************************************)
(* Files a user uploads, and the session records app.py makes of them      *)
(***************************************************************************)
Files ==
    { [name |-> "q1.pdf", text |-> "Total Revenue was $1,200 in FY23",
       grid |-> ExampleGrid],
      [name |-> "q1.pdf", text |-> "",
       grid |-> << <<"Item", "FY22", "2023">>, <<"Net income", "(20)", "30">> >>],
      [name |-> "q1.pdf", text |-> "Revenue 7",
       grid |-> << <<"Metric", "2022", "2023">>, BlankRow,
                   <<"Revenue", "100", "150">> >>],
      [name |-> "fy.xlsx", text |-> "",
       grid |-> << <<"Item", "FY22", "2023">>, <<"Total assets", "12abc", "7">>,
                   <<"Gross profit", "1.5", "2">> >>],
      [name |-> "memo.pdf", text |-> "hello", grid |-> <<>>] }

\* app.py lines 61-64
Extract(file) ==
    IF EndsWith(Lower(file.name), ".pdf") THEN extract_from_pdf(file)
    ELSE extract_from_excel(file)

\* app.py lines 67 and 77-90: the record of a processed file
DocRecordOf(name, extracted) ==
    [name     |-> name,
     raw_text |-> extracted.raw_text,
     tables   |-> extracted.tables,
     metrics  |-> structure_financial_data(extracted.raw_text, extracted.tables)]

DocRecord(file) == DocRecordOf(file.name, Extract(file))

\* the record app.py makes of each file a user can select
Processed == [f \in Files |-> DocRecord(f)]

\* the files whose processing raises nothing
GoodFiles == {f \in Files : ~Processed[f].metrics.raised}

(***************************************************************************)
(* Specification QASpec: one call of ask_question; the request to the LLM  *)
(* service is in flight between the two steps                              *)
(***************************************************************************)
\* most documents of an enumerated docs_context
MaxDocs == 2

Questions ==
    { "What is the revenue?", "Show me the net income",
      "What's the profit margin?", "Compare assets and liabilities",
      "Total COSTS and Sales", "hello" }

RECURSIVE DocListsUpTo(_)
DocListsUpTo(n) ==
    IF n = 0 THEN {<<>>}
    ELSE LET S == DocListsUpTo(n - 1)
         IN  S \cup {Append(ds, Processed[f]) : ds \in S, f \in GoodFiles}

DistinctNames(docs) ==
    \A i, j \in DOMAIN docs : docs[i].name = docs[j].name => i = j

DocLists == {ds \in DocListsUpTo(MaxDocs) : DistinctNames(ds)}

HttpResponse(status, body) ==
    [kind |-> "http", status |-> status, json |-> TRUE, body |-> body,
     error |-> NoError]

\* a body resp.json() cannot decode
BadJsonResponse(status) ==
    [kind |-> "http", status |-> status, json |-> FALSE, body |-> JList(<<>>),
     error |-> "Expecting value: line 1 column 1 (char 0)"]

\* requests.post raises (connection refused, timeout)
RaisedResponse(error) ==
    [kind |-> "raise", status |-> 0, json |-> FALSE, body |-> JList(<<>>),
     error |-> error]

Bodies ==
    { JDict(<< [key |-> "text", val |-> JStr(" 42 ")] >>),
      JDict(<< [key |-> "response", val |-> JStr("hi")] >>),
      JDict(<< [key |-> "text", val |-> JInt(5)] >>),
      JList(<< JInt(1) >>),
      JStr("ok") }

Responses ==
    {HttpResponse(st, b) : st \in {200, 404, 500}, b \in Bodies}
    \cup {BadJsonResponse(st) : st \in {200, 500}}
    \cup {RaisedResponse(e) : e \in {"Connection refused", "Read timed out"}}

InitQA ==
    /\ pc = "start"
    /\ arg \in Questions
    /\ kwarg = <<>>
    /\ raw_text = ""
    /\ tables = <<>>
    /\ ret = NoAnswer
    /\ prev = NoCall
    /\ documents \in DocLists
    /\ chat = <<>>
    /\ uploaded = NoFile
    /\ button = "none"
    /\ requests = 0
    /\ response = NoResponse

\* lines 72-74: the direct lookup has an answer
AskDirect ==
    /\ pc = "start"
    /\ Truthy(lookup_metrics(arg, documents))
    /\ ret' = lookup_metrics(arg, documents)
    /\ pc' = "done"
    /\ UNCHANGED <<arg, kwarg, raw_text, tables, prev, session>>

\* lines 72-115: no direct answer, the prompt is posted to the service
AskSendRequest ==
    /\ pc = "start"
    /\ ~Truthy(lookup_metrics(arg, documents))
    /\ requests' = requests + 1
    /\ pc' = "waiting"
    /\ UNCHANGED <<arg, kwarg, raw_text, tables, ret, prev,
                   documents, chat, uploaded, button, response>>

\* lines 115-125: requests.post returns or raises
LlmResponds ==
    /\ pc = "waiting"
    /\ \E r \in Responses :
          /\ response' = r
          /\ ret' = StrAnswer(AnswerOfResponse(r))
    /\ pc' = "done"
    /\ UNCHANGED <<arg, kwarg, raw_text, tables, prev,
                   documents, chat, uploaded, button, requests>>

NextQA ==
    \/ AskDirect
    \/ AskSendRequest
    \/ LlmResponds

QASpec == InitQA /\ [][NextQA]_vars

(***************************************************************************)
(* Specification AppSpec: app.py, one action per run of the script.  A run *)
(* is started by one interaction: a file is selected in or removed from    *)
(* the uploader, a button is pressed, or a question is submitted; buttons  *)
(* and the chat input hold a value for that run only, the uploader keeps   *)
(* its file.  pc names the interaction of the latest run, arg its          *)
(* question, requests and response the LLM call it made.  The Metrics and  *)
(* Preview tabs only render.                                               *)
(***************************************************************************)
\* most messages of the chat of an enumerated session
MaxChat == 5

AppQuestions == {"What is the revenue?", "hello"}

AppResponses ==
    { HttpResponse(200, JDict(<< [key |-> "text", val |-> JStr(" 42 ")] >>)),
      HttpResponse(500, JStr("ok")),
      RaisedResponse("Connection refused") }

\* lines 234-236: the welcome message, without the emoji it starts with
Welcome ==
    << "assistant",
       "Hi, I'm your financial assistant. Upload a document and ask me anything about revenue, expenses, or profits!" >>

\* lines 45-46 and 49-51: the chat after the buttons
ChatAfterButtons(ch, btn) ==
    IF btn \in {"clear_chat", "clear_all"} THEN <<>> ELSE ch

\* lines 49-50: the documents after the buttons
DocsAfterButtons(docs, btn) == IF btn = "clear_all" THEN <<>> ELSE docs

\* lines 70-74: the first position with that name, 0 for existing_idx None
IndexOfName(docs, name) ==
    IF \A i \in DOMAIN docs : docs[i].name # name THEN 0
    ELSE CHOOSE i \in DOMAIN docs :
            docs[i].name = name /\ \A j \in 1..(i - 1) : docs[j].name # name

\* lines 76-90: the record replaces the one of its name or is appended
ReplaceOrAppend(docs, rec) ==
    IF IndexOfName(docs, rec.name) # 0
    THEN [docs EXCEPT ![IndexOfName(docs, rec.name)] = rec]
    ELSE Append(docs, rec)

\* lines 58-94: the documents after the upload block; an exception of the
\* extraction or the structuring is reported in the sidebar and changes nothing
DocsAfterUpload(docs, file) ==
    IF file = NoFile THEN docs
    ELSE IF Processed[file].metrics.raised THEN docs
    ELSE ReplaceOrAppend(docs, Processed[file])

\* qa_engine.py lines 72-125: the answer to a question, r being the outcome
\* of requests.post when the lookup has no answer
ask_question(question, docs_context, r) ==
    IF Truthy(lookup_metrics(question, docs_context))
    THEN lookup_metrics(question, docs_context).s
    ELSE AnswerOfResponse(r)

\* lines 234-236
WithWelcome(ch) == IF ch = <<>> THEN <<Welcome>> ELSE ch

\* lines 239-244; query "" is no question submitted
WithExchange(ch, docs, query, r) ==
    IF query = "" THEN ch
    ELSE ch \o << <<"user", query>>, <<"assistant", ask_question(query, docs, r)>> >>

\* lines 98 and 229-244: the chat after the tabs
ChatAfterTabs(ch, docs, query, r) ==
    IF docs = <<>> THEN ch ELSE WithExchange(WithWelcome(ch), docs, query, r)

\* the LLM is called in a run with a question the lookup does not answer
CallsLlm(docs, query) ==
    docs # <<>> /\ query # "" /\ ~Truthy(lookup_metrics(query, docs))

\* lines 24-248: one run of the script
Run(file, btn, query, r) ==
    /\ uploaded' = file
    /\ button' = btn
    /\ arg' = query
    /\ documents' = DocsAfterUpload(DocsAfterButtons(documents, btn), file)
    /\ chat' = ChatAfterTabs(ChatAfterButtons(chat, btn), documents', query, r)
    /\ requests' = IF CallsLlm(documents', query) THEN 1 ELSE 0
    /\ response' = IF CallsLlm(documents', query) THEN r ELSE NoResponse
    /\ UNCHANGED <<kwarg, raw_text, tables, ret, prev>>

InitApp ==
    /\ pc = "start"
    /\ arg = ""
    /\ kwarg = <<>>
    /\ raw_text = ""
    /\ tables = <<>>
    /\ ret = None
    /\ prev = NoCall
    /\ SessionIdle

\* a file is selected in the uploader
RunSelectFile ==
    /\ pc' = "select"
    /\ \E f \in Files : Run(f, "none", "", NoResponse)

\* the file is removed from the uploader
RunRemoveFile ==
    /\ uploaded # NoFile
    /\ pc' = "remove"
    /\ Run(NoFile, "none", "", NoResponse)

\* "Clear Chat Only" is pressed
RunClearChat ==
    /\ pc' = "clear_chat"
    /\ Run(uploaded, "clear_chat", "", NoResponse)

\* "Clear All Data" is pressed
RunClearAll ==
    /\ pc' = "clear_all"
    /\ Run(uploaded, "clear_all", "", NoResponse)

\* a question is submitted in the chat input, which the previous run
\* rendered only with documents
RunQuery ==
    /\ documents # <<>>
    /\ Len(WithWelcome(chat)) + 2 <= MaxChat
    /\ pc' = "query"
    /\ \E q \in AppQuestions : \E r \in AppResponses :
          Run(uploaded, "none", q, r)

NextApp ==
    \/ RunSelectFile
    \/ RunRemoveFile
    \/ RunClearChat
    \/ RunClearAll
    \/ RunQuery

AppSpec == InitApp /\ [][NextApp]_vars

(***************************************************************************)
(* Claims about parse_numeric (checked under ParseSpec)                    *)
(***************************************************************************)
NoDigit(s) == \A i \in 1..Len(s) : ~IsDigit(Char(s, i))

\* A decimal literal read by a scanner over character classes: an optional
\* sign, digits with an optional point (at least one digit), an optional
\* exponent e[+-]digits.  st is the scanner's state.
RECURSIVE DecimalScan(_, _)
DecimalScan(s, st) ==
    IF s = "" THEN st \in {"int", "point", "frac", "exp"}
    ELSE LET c == Head(s)
             nx == CASE st = "start" /\ c \in {"+", "-"} -> "sign"
                     [] st \in {"start", "sign", "int"} /\ IsDigit(c) -> "int"
                     [] st \in {"start", "sign"} /\ c = "." -> "dot"
                     [] st = "int" /\ c = "." -> "point"
                     [] st \in {"dot", "point", "frac"} /\ IsDigit(c) -> "frac"
                     [] st \in {"int", "point", "frac"} /\ c \in {"e", "E"} -> "e"
                     [] st = "e" /\ c \in {"+", "-"} -> "esign"
                     [] st \in {"e", "esign", "exp"} /\ IsDigit(c) -> "exp"
                     [] OTHER -> "reject"
         IN  nx # "reject" /\ DecimalScan(Tail(s), nx)

IsDecimal(s) == DecimalScan(s, "start")

\* well-formed: after stripping commas and spaces, a whole decimal number,
\* optionally wrapped in parentheses, optionally followed by K, M or B
WellFormed(s) ==
    LET t == Strip(Remove(Remove(s, ","), " "))
        u == IF StartsWith(t, "(") /\ EndsWith(t, ")")
             THEN SubSeq(t, 2, Len(t) - 1) ELSE t
        v == IF u # "" /\ Char(u, Len(u)) \in {"K", "M", "B"}
             THEN TakeFirst(u, Len(u) - 1) ELSE u
    IN  IsDecimal(v)

\* C6: parse_numeric returns a number or None, never an exception, and a
\* malformed string yields None, never a number made of part of the string.
C6_NumberOrAbsent ==
    pc = "done" =>
        /\ ret = None \/ IsFloat(ret)
        /\ ~WellFormed(arg) => ret = None

\* C7: parse_numeric returns None for the empty string and for every string
\* that holds no digit.
C7_NoDigitYieldsAbsent ==
    pc = "done" /\ NoDigit(arg) => ret = None

\* C8 as stated: parse_numeric("(1.5M)") does not return -1,500,000.
C8_NotNegated ==
    pc = "done" /\ arg = "(1.5M)" => ret # Num(-15, 5)

Negated(v) == IF v.kind \in {"num", "inf"} THEN [v EXCEPT !.m = 0 - v.m] ELSE v

\* C8 as amended: parse_numeric("(1.5M)") returns -1,500,000, and more
\* generally a parenthesized unsigned number with a K/M/B suffix parses to
\* the negation of what the same text parses to without its parentheses.
C8_ParenSuffixNegated ==
    pc = "done" =>
        /\ arg = "(1.5M)" => ret = Num(-15, 5)
        /\ LET x == Remove(Remove(SubSeq(arg, 2, Len(arg) - 1), ","), " ")
           IN  /\ StartsWith(arg, "(") /\ EndsWith(arg, ")") /\ x # ""
               /\ Char(x, Len(x)) \in {"K", "M", "B"}
               /\ Head(x) \notin {"+", "-", "("}
               /\ parse_numeric(x).kind = "num"
               => ret = Negated(parse_numeric(x))

C8_Witness ==
    pc = "done" /\ arg = "(1.5M)" /\ ret = Num(-15, 5)

(***************************************************************************)
(* Claims about find_metric_in_text (checked under TextSpec)               *)
(***************************************************************************)
\* the hits in document order: line by line, and for one line keyword by
\* keyword (a line is repeated when several keywords hit it)
DocumentOrderHits(text, kws) == HitsLineMajor(kws, SplitLines(Lower(text)))

RECURSIVE Flatten(_)
Flatten(ss) == IF ss = <<>> THEN <<>> ELSE Head(ss) \o Flatten(Tail(ss))

Returned == pc \in {"done", "other", "again"} /\ ~ret.raised

\* C1: the returned 'metrics' mapping has exactly the keys of the keyword
\* catalog; a metric that was not found is there with the value None.
C1_AllKeysPresent ==
    Returned =>
        /\ DOMAIN ret.metrics = MetricKeys
        /\ \A k \in MetricKeys :
             ret.metrics[k] = None \/ IsFloat(ret.metrics[k])
        /\ \A k \in MetricKeys \ DOMAIN ret.confidence : ret.metrics[k] = None

C1_Witness ==
    /\ Returned
    /\ \E k \in DOMAIN ret.metrics : ret.metrics[k] = None
    /\ \E k \in DOMAIN ret.metrics : ret.metrics[k] # None

ExampleYearly ==
    [y \in {"2022", "2023"} |->
        [k \in {"revenue"} |-> IF y = "2022" THEN Whole(100) ELSE Whole(150)]]

\* C2: for the table with header ["Metric","2022","2023"] and the row
\* ["Revenue","100","150"], in either representation, yearly_metrics is
\* {"2022": {"revenue": 100}, "2023": {"revenue": 150}}, metrics["revenue"]
\* is 150 and its confidence is high.
C2_ExampleTable ==
    /\ pc = "done"
    /\ tables \in {ExcelTables(ExampleGrid), PdfTables(ExampleGrid)}
    => /\ ~ret.raised
       /\ ret.yearly_metrics = ExampleYearly
       /\ ret.metrics["revenue"] = Whole(150)
       /\ Has(ret.confidence, "revenue") /\ ret.confidence["revenue"] = "high"

ExampleText == "Total Revenue was $1,200 in FY23"

\* C3: for the text "Total Revenue was $1,200 in FY23" and no
\* table, metrics["revenue"] is 1200 with confidence medium.
C3_TextExample1200 ==
    pc = "done" /\ raw_text = ExampleText /\ tables = <<>> =>
        /\ ~ret.raised
        /\ ret.metrics["revenue"] = Whole(1200)
        /\ Has(ret.confidence, "revenue") /\ ret.confidence["revenue"] = "medium"

\* what the aggregator holds before the latest-year step
PreBoost(text, tbls) ==
    TextFallback(SeedFromTables(read_numbers_from_tables(tbls).results),
                 METRIC_KEYWORDS, text)

\* the maximum of a set of strings under string comparison
LexMax(S) == CHOOSE y \in S : \A z \in S : z = y \/ StrLess(z, y)

Overwritten(pre, rec, k) ==
    k \in DOMAIN rec /\ (~Has(pre.metrics, k) \/ pre.confidence[k] # "high")

\* C4: with a non-empty yearly series the record of the lexicographically
\* greatest year label is used; a metric of that record is overwritten and
\* tagged high exactly when it had no entry or was not high; a metric that
\* is already high keeps its table-scanner value; the others are unchanged.
C4_LatestYearOverwrite ==
    Returned /\ pc = "done" /\ ret.yearly_metrics # EmptyDict =>
        LET pre == PreBoost(raw_text, tables)
            rec == ret.yearly_metrics[LexMax(DOMAIN ret.yearly_metrics)]
        IN  \A k \in MetricKeys :
              IF Overwritten(pre, rec, k)
              THEN /\ ret.metrics[k] = rec[k]
                   /\ Has(ret.confidence, k) /\ ret.confidence[k] = "high"
              ELSE /\ ret.metrics[k] = Get(pre.metrics, k)
                   /\ Has(ret.confidence, k) <=> Has(pre.confidence, k)
                   /\ Has(pre.confidence, k) =>
                        ret.confidence[k] = pre.confidence[k]

\* a medium text value is overwritten by the record of "FY22", which is
\* greater than "2023" as a string
C4_Witness ==
    /\ Returned /\ pc = "done"
    /\ {"FY22", "2023"} \subseteq DOMAIN ret.yearly_metrics
    /\ LET pre == PreBoost(raw_text, tables)
           rec == ret.yearly_metrics["FY22"]
       IN  \E k \in DOMAIN rec :
              /\ Has(pre.metrics, k) /\ pre.confidence[k] = "medium"
              /\ ret.metrics[k] = rec[k] /\ rec[k] # pre.metrics[k]
              /\ ret.yearly_metrics["2023"][k] # rec[k]

HeaderFires(df, metric) ==
    ColumnPass(EmptyDict, metric, KeywordsOf(metric), df, 1) # EmptyDict

RowLabelFires(df, metric) ==
    \E k \in DOMAIN df.rows :
        AnyKeywordIn(KeywordsOf(metric), Lower(df.rows[k][1]))

\* what the row-label pass alone stores for the metric
RowDerived(df, metric) ==
    RowPass([exc |-> FALSE, results |-> EmptyDict], metric,
            KeywordsOf(metric), df, 1).results

\* C9 as stated: when a column-header match and a row-label match fire for
\* the same metric, the retained value is the one of the row-label pass.
C9_RowPassWins ==
    pc = "scanned" /\ ~ret.exc /\ Len(tables) = 1 =>
        \A m \in MetricKeys :
            HeaderFires(tables[1], m) /\ RowLabelFires(tables[1], m) =>
                /\ Has(RowDerived(tables[1], m), m)
                /\ ret.results[m] = RowDerived(tables[1], m)[m]

\* C9 as amended: for the last table scanned, when a column-header match
\* fires and a row whose label matches holds a numeric-looking cell, the
\* retained value is the one of the row-label pass; when no matching row
\* holds a numeric-looking cell the header-derived value is retained.
C9_RowPassWinsWhenNumeric ==
    pc = "scanned" /\ ~ret.exc /\ tables # <<>> =>
        LET df == tables[Len(tables)]
        IN  \A m \in MetricKeys :
              HeaderFires(df, m) =>
                IF Has(RowDerived(df, m), m)
                THEN ret.results[m] = RowDerived(df, m)[m]
                ELSE ret.results[m] =
                       ColumnPass(EmptyDict, m, KeywordsOf(m), df, 1)[m]

C9_Witness ==
    /\ pc = "scanned" /\ ~ret.exc /\ Len(tables) = 1
    /\ \E m \in MetricKeys :
          /\ HeaderFires(tables[1], m)
          /\ Has(RowDerived(tables[1], m), m)
          /\ ret.results[m] = RowDerived(tables[1], m)[m]
          /\ ret.results[m] #
                ColumnPass(EmptyDict, m, KeywordsOf(m), tables[1], 1)[m]

(***************************************************************************)
(* Claims about extract_multi_year_data (checked under StructSpec)         *)
(***************************************************************************)
\* the label of row k as the year pass reads it
RowLabel(df, k) == Strip(Lower(DfStrCell(df.rows[k][1])))

\* the first metric, in catalog order, with a keyword in the label; "" if none
FirstMatch(label) ==
    LET I == {i \in DOMAIN METRIC_KEYWORDS :
                 AnyKeywordIn(METRIC_KEYWORDS[i].kws, label)}
    IN  IF I = {} THEN ""
        ELSE METRIC_KEYWORDS[CHOOSE i \in I : \A j \in I : i <= j].metric

\* a cell "(digits)"
ParenCell(c) ==
    Len(c) >= 3 /\ Head(c) = "(" /\ Char(c, Len(c)) = ")"
    /\ AllDigits(SubSeq(c, 2, Len(c) - 1))

\* no row below k of df is a row of the same metric
LastRowOfMetric(df, k) ==
    \A k2 \in DOMAIN df.rows :
        k2 > k => FirstMatch(RowLabel(df, k2)) # FirstMatch(RowLabel(df, k))

YearlyHolds(yearly, year, metric, v) ==
    Has(yearly, year) /\ Has(yearly[year], metric) /\ yearly[year][metric] = v

\* C11: a year-column cell "(n)" in a row whose label matches a metric (and
\* which is not the skipped row) is stored as the negative value -n.
C11_ParenthesesNegative ==
    pc = "done" /\ ~ret.raised /\ Len(tables) = 1 =>
        LET df == tables[1]
        IN  \A k \in DOMAIN df.rows : \A c \in DOMAIN DetectYearColumns(df) :
              LET yc == DetectYearColumns(df)[c]
                  cell == df.rows[k][yc.col_idx]
              IN  /\ df.index[k] # 0
                  /\ FirstMatch(RowLabel(df, k)) # ""
                  /\ LastRowOfMetric(df, k)
                  /\ ParenCell(cell)
                  => YearlyHolds(ret.yearly_metrics, yc.year,
                                 FirstMatch(RowLabel(df, k)),
                                 Whole(0 - ToInt(SubSeq(cell, 2, Len(cell) - 1))))

\* the rows after the header row: all of them when the header is the column
\* labels, those below the first row when the header is the first row
DataRows(df) ==
    IF YearColumns(df.columns, 1) # <<>> THEN DOMAIN df.rows
    ELSE DOMAIN df.rows \ {1}

\* C12: every row after the header row whose label contains a metric keyword
\* contributes its parseable year-column values; no data row is skipped.
C12_EveryDataRowContributes ==
    pc = "done" /\ ~ret.raised /\ Len(tables) = 1 =>
        LET df == tables[1]
        IN  \A k \in DataRows(df) : \A c \in DOMAIN DetectYearColumns(df) :
              LET yc == DetectYearColumns(df)[c]
                  cell == DfStrCell(df.rows[k][yc.col_idx])
              IN  /\ FirstMatch(RowLabel(df, k)) # ""
                  /\ LastRowOfMetric(df, k)
                  /\ Strip(cell) # "" /\ YearCellValue(cell) # None
                  => YearlyHolds(ret.yearly_metrics, yc.year,
                                 FirstMatch(RowLabel(df, k)),
                                 YearCellValue(cell))

\* C13: a row contributes to at most one metric, the first in catalog order
\* with a keyword in its label: every stored (year, metric) value comes from
\* a row whose first matching metric is that metric.
C13_FirstMetricOnly ==
    pc = "done" /\ ~ret.raised =>
        \A y \in DOMAIN ret.yearly_metrics :
          \A m \in DOMAIN ret.yearly_metrics[y] :
            \E t \in DOMAIN tables : \E k \in DOMAIN tables[t].rows :
              /\ FirstMatch(RowLabel(tables[t], k)) = m
              /\ \E c \in DOMAIN DetectYearColumns(tables[t]) :
                    LET yc == DetectYearColumns(tables[t])[c]
                    IN  /\ yc.year = y
                        /\ YearCellValue(DfStrCell(tables[t].rows[k][yc.col_idx]))
                               = ret.yearly_metrics[y][m]

\* a "Cost of revenue" row went to revenue and not to cost_of_revenue
C13_Witness ==
    /\ pc = "done" /\ ~ret.raised /\ Len(tables) = 1
    /\ \E k \in DOMAIN tables[1].rows :
          /\ tables[1].index[k] # 0
          /\ RowLabel(tables[1], k) = "cost of revenue"
    /\ \E y \in DOMAIN ret.yearly_metrics :
          /\ Has(ret.yearly_metrics[y], "revenue")
          /\ ~Has(ret.yearly_metrics[y], "cost_of_revenue")
          /\ ret.yearly_metrics[y]["revenue"] = Whole(40)

(***************************************************************************)
(* Claims about find_currency_in_document (checked under CurrencySpec)     *)
(***************************************************************************)
\* the positions of cands whose element occurs in txt
Present(cands, txt) == {i \in DOMAIN cands : Contains(cands[i], txt)}

Least(I) == CHOOSE i \in I : \A j \in I : i <= j

TableSymbols == {"₹", "$", "€", "£"}

CellHasTableSymbol(tbls) ==
    \E t \in DOMAIN tbls : \E k \in DOMAIN tbls[t].rows :
       \E j \in DOMAIN tbls[t].rows[k] : \E sym \in TableSymbols :
          Contains(sym, tbls[t].rows[k][j])

\* C14: a symbol of the text wins, the first in the order ₹ $ € £ ¥ wherever
\* it stands; else a code of the text, the first in the order inr usd eur
\* gbp jpy aud, upper-cased; else "symbolic" when a table cell holds one of
\* ₹ $ € £; else none.
C14_CurrencyPrecedence ==
    pc = "done" =>
        LET syms  == Present(CurrencySymbols, raw_text)
            codes == Present(CurrencyTokens, Lower(raw_text))
        IN  /\ syms # {} => ret = CurrencySymbols[Least(syms)]
            /\ syms = {} /\ codes # {} => ret = Upper(CurrencyTokens[Least(codes)])
            /\ syms = {} /\ codes = {} =>
                 ret = IF CellHasTableSymbol(tables) THEN "symbolic"
                       ELSE NoCurrency
            /\ ret = "symbolic" => syms = {} /\ codes = {}

\* the text names "$" before "₹", a table holds a symbol, and "₹" is returned
C14_Witness ==
    /\ pc = "done" /\ ret = "₹"
    /\ StartsWith(raw_text, "$5 ₹9")
    /\ CellHasTableSymbol(tables)

(***************************************************************************)
(* Claims about failures and confidence tags (checked under StructSpec)    *)
(***************************************************************************)
\* C15: structure_financial_data raises no exception, whatever the text and
\* the tables; it returns a document.
C15_NeverRaises ==
    pc \in {"done", "other", "again"} => ~ret.raised

\* C18: a metric with a confidence tag has a value, a metric with a value has
\* a tag high or medium; a numeric-looking table cell that fails to parse
\* blocks neither the text fallback nor the latest-year overwrite.
C18_TagIffValue ==
    Returned =>
        /\ \A k \in DOMAIN ret.confidence : ret.metrics[k] # None
        /\ \A k \in MetricKeys :
             ret.metrics[k] # None =>
                Has(ret.confidence, k) /\ ret.confidence[k] \in {"high", "medium"}
        /\ ret.yearly_metrics # EmptyDict =>
             \A k \in DOMAIN ret.yearly_metrics[LexMax(DOMAIN ret.yearly_metrics)] :
                ret.metrics[k] # None

\* the first numeric-looking cell of row k of df, parsed; None if there is none
RowValue(df, k) ==
    IF FirstNumeric(df.rows[k]) = 0 THEN None
    ELSE parse_numeric(df.rows[k][FirstNumeric(df.rows[k])])

\* C19: the row-label pass scans the row whose label matched, also in a
\* table whose row index is not 0..n-1: it never indexes past the last row,
\* and a value it stores is the value of a row whose label matches.
C19_ScansTheMatchedRow ==
    pc = "scanned" =>
        /\ ~ret.exc
        /\ Len(tables) = 1 =>
             \A m \in DOMAIN ret.results :
                \/ HeaderFires(tables[1], m)
                \/ \E k \in DOMAIN tables[1].rows :
                      /\ AnyKeywordIn(KeywordsOf(m), Lower(tables[1].rows[k][1]))
                      /\ FirstNumeric(tables[1].rows[k]) # 0
                      /\ ret.results[m] = RowValue(tables[1], k)

(***************************************************************************)
(* Claims about ask_question (checked under QASpec)                        *)
(***************************************************************************)
FallbackMessage == "I couldn't find the requested value in the uploaded documents."

\* some document holds a value for a metric the question names
DirectlyAnswerable(q, docs) ==
    \E i \in DOMAIN possible_metrics : \E d \in DOMAIN docs :
        /\ AnyKeywordIn(possible_metrics[i].kws, Lower(q))
        /\ Get(docs[d].metrics.metrics, possible_metrics[i].metric) # None

\* C16: the direct lookup runs first and its answer is returned without any
\* request to the LLM service; otherwise exactly one request is sent, and a
\* non-200 status or an exception gives the fallback message; the result is
\* always a string.
C16_LookupThenLlmThenFallback ==
    /\ pc = "start" => requests = 0
    /\ pc = "waiting" => requests = 1 /\ ~DirectlyAnswerable(arg, documents)
    /\ pc = "done" =>
         /\ ret.kind = "str"
         /\ IF DirectlyAnswerable(arg, documents)
            THEN requests = 0 /\ response = NoResponse
                 /\ ~StartsWith(ret.s, FallbackMessage)
            ELSE /\ requests = 1 /\ response # NoResponse
                 /\ response.kind = "raise" \/ response.status # 200 \/ ~response.json
                      => StartsWith(ret.s, FallbackMessage)
                 /\ response.kind = "http" /\ response.status # 200
                      => ret.s = FallbackMessage
         /\ arg = "What is the revenue?" /\ documents # <<>>
              /\ documents[1].name = "q1.pdf"
              /\ documents[1].metrics.metrics["revenue"] = Whole(100)
              /\ Len(documents) = 1
              => ret.s = "Revenue (from q1.pdf): 100.0"

\* a 500 answer with a well-formed body still gives the fallback message
C16_Witness ==
    /\ pc = "done" /\ requests = 1
    /\ response.kind = "http" /\ response.status = 500 /\ response.json
    /\ response.body.type = "dict" /\ HasKey(response.body, "text")
    /\ ret.s = FallbackMessage

(***************************************************************************)
(* Claims about the app (checked under AppSpec)                            *)
(***************************************************************************)
\* the record at position i is the whole record of the file
WholeRecordOf(rec, file) ==
    /\ rec.name = file.name
    /\ rec.raw_text = Extract(file).raw_text
    /\ rec.tables = Extract(file).tables
    /\ ~Processed[file].metrics.raised => rec.metrics = Processed[file].metrics

\* C17: in a run that uploads a file, a file with the name of a stored
\* document replaces the whole record at that position and leaves the other
\* documents unchanged, a file with a new name appends one record, and no two
\* documents of the list have the same name.
C17_UploadReplacesOrAppends ==
    [][ pc' = "select" =>
          /\ DistinctNames(documents')
          /\ IF IndexOfName(documents, uploaded'.name) # 0
             THEN /\ Len(documents') = Len(documents)
                  /\ \A i \in DOMAIN documents :
                        IF i = IndexOfName(documents, uploaded'.name)
                        THEN WholeRecordOf(documents'[i], uploaded')
                        ELSE documents'[i] = documents[i]
             ELSE /\ Len(documents') = Len(documents) + 1
                  /\ SubSeq(documents', 1, Len(documents)) = documents
                  /\ WholeRecordOf(documents'[Len(documents')], uploaded') ]_vars

\* C20: at the end of a run in which "Clear All Data" was pressed the
\* documents and the chat are empty, whatever the uploader holds; a run in
\* which "Clear Chat Only" was pressed leaves the documents as they were.
C20_ClearAllEmpties ==
    [][ /\ pc' = "clear_all" => documents' = <<>> /\ chat' = <<>>
        /\ pc' = "clear_chat" => documents' = documents ]_vars

====
